---- MODULE Spec2Model ----
(***************************************************************************)
(* Model of three::renderer::Renderer (three/core/renderer/renderer.cpp):  *)
(* the off-screen renderer's lifecycle (construction, set_scene, the       *)
(* render family, the close signal, destruction), the graphics-API calls   *)
(* each operation issues and the pixel export with its vertical flip.      *)
(*                                                                         *)
(* Numbers: a float is modelled by an integer (1.0 -> 1, 0.0 -> 0; a depth *)
(* value by hundredths, full depth 1.0 -> 100); a 4x4 matrix by an integer *)
(* identifier.  Rows and columns are 0-based as in the source; sequences   *)
(* are 1-based, so buffer element i of the source is element i+1 here.     *)
(***************************************************************************)
EXTENDS Integers, Sequences, FiniteSets

(* ---------------------------------------------------------------- bounds *)
\* longest object list a Scene's owner builds
MaxObjects == 2
\* width the host constructs the Renderer with
Width == 2
\* height the host constructs the Renderer with
Height == 3
\* cap on the number of glfwDestroyWindow calls counted on one window
MaxTeardowns == 2

(* ------------------------------------------------- the caller's universe *)
\* the Scene instances the host owns
Scenes == {"A", "B"}
\* the base::Object instances the host owns
Objects == {"o1", "o2"}
\* the PerspectiveCamera instances the host owns
Cameras == {1}
\* the values a caller's output array holds before the call
Fills == {7}

\* the k-th object the owner of Scene s puts on its list
Stock(s, k) == IF (k % 2 = 1) = (s = "A") THEN "o1" ELSE "o2"

\* base::Object::_num_faces
_num_faces(o) == IF o = "o1" THEN 1 ELSE 2
\* base::Object::_smoothness
_smoothness(o) == o = "o1"
\* base::Object::_model_matrix (identifier of the matrix)
_model_matrix(o) == IF o = "o1" THEN 1 ELSE 2
\* PerspectiveCamera::_view_matrix (identifier of the matrix)
_view_matrix(cam) == 10 + cam
\* PerspectiveCamera::_projection_matrix (identifier of the matrix)
_projection_matrix(cam) == 20 + cam

VARIABLES
    life,           \* "none" | "alive" | "failed" (constructor threw) | "destroyed" | "crashed"
    window,         \* _window: "unset" | "null" | "open" | "destroyed" (dangling handle)
    closeReq,       \* the window's should-close flag
    teardowns,      \* glfwDestroyWindow calls made on the created window
    current,        \* context current on the thread: "none" | "self" | "other"
    gl,             \* state of this Renderer's context
    dims,           \* <<_width, _height>>
    _scene,         \* stored Scene pointer ("unset" before the first set_scene)
    _vao,           \* geometry slots of the VertexArrayObject, one per built object
    bound,          \* the Scene passed to the most recent set_scene, and whether its
                    \* owner changed its list since then
    _depth_buffer,  \* width*height floats
    _color_buffer,  \* width*height*3 bytes
    scenes,         \* Scene::_objects of every Scene (owned by the host)
    calls,          \* library and graphics-API calls of the last operation, in order
    last,           \* what the last operation or event was and did
    out             \* the caller's array as the last render call left it (row-major);
                    \* empty when the last operation was no render call

vars == <<life, window, closeReq, teardowns, current, gl, dims, _scene, _vao, bound,
          _depth_buffer, _color_buffer, scenes, calls, last, out>>

(* ------------------------------------------------------------- helpers *)
Call(api, args) == [api |-> api, args |-> args]

\* a slot holding no geometry of any scene (what an invalid name binds)
NoSlot == [scene |-> "none", object |-> "none"]

\* std::make_unique<T[]>(n): n value-initialised (zero) elements
make_unique(n) == [i \in 1..n |-> 0]

\* initial state of a fresh OpenGL context
FreshGL == [program |-> FALSE, blend |-> FALSE, cull |-> FALSE, depthTest |-> FALSE,
            clearColor |-> <<0, 0, 0, 0>>, clearDepth |-> 100,
            depthAtt |-> FALSE, colorAtt |-> FALSE, viewport |-> <<0, 0, 0, 0>>]

\* record of an event that is no render call
Event(op) == [op |-> op, cam |-> 0, fill |-> 0, path |-> "none", entry |-> "none",
              cleared |-> <<>>, objs |-> <<>>, slots |-> <<>>]

\* no set_scene yet
Unbound == [scene |-> "unset", touched |-> FALSE]
\* just after set_scene(scene)
Bound(scene) == [scene |-> scene, touched |-> FALSE]

\* the process has died of undefined behaviour: nothing of the Renderer is left
Crash ==
    /\ life' = "crashed"
    /\ window' = "unset"
    /\ current' = "none"
    /\ gl' = FreshGL
    /\ dims' = <<0, 0>>
    /\ _scene' = "unset"
    /\ _vao' = <<>>
    /\ bound' = Unbound
    /\ _depth_buffer' = <<>>
    /\ _color_buffer' = <<>>
    /\ calls' = <<>>
    /\ last' = Event("crash")
    /\ out' = <<>>
    /\ closeReq' = FALSE
    /\ scenes' = [s \in Scenes |-> <<>>]
    /\ UNCHANGED teardowns

Init ==
    /\ life = "none"
    /\ window = "unset"
    /\ closeReq = FALSE
    /\ teardowns = 0
    /\ current = "none"
    /\ gl = FreshGL
    /\ dims = <<0, 0>>
    /\ _scene = "unset"
    /\ _vao = <<>>
    /\ bound = Unbound
    /\ _depth_buffer = <<>>
    /\ _color_buffer = <<>>
    /\ scenes = [s \in Scenes |-> IF s = "A" THEN <<>> ELSE [k \in 1..MaxObjects |-> Stock(s, k)]]
    /\ calls = <<>>
    /\ last = Event("init")
    /\ out = <<>>

(* ------------------------------------------------------- window, context *)
\* glfwMakeContextCurrent(_window): the context that is current afterwards.  A NULL
\* handle detaches the current context; after glfwTerminate there is no context.
glfwMakeContextCurrent == IF window = "open" THEN "self" ELSE "none"

\* Outcomes of using the graphics API with no current context, of reading a
\* destroyed or NULL window handle, of dereferencing an unset Scene pointer or of
\* binding a slot index that was never built: the process dies or goes on.
Undefined(cond) == IF cond THEN {"crash", "go"} ELSE {"go"}

\* glfwWindowShouldClose(_window): the flag of an open window; reading a destroyed
\* or NULL handle is undefined and may yield either value.
glfwWindowShouldClose == IF window = "open" THEN {closeReq} ELSE {TRUE, FALSE}

\* glfwDestroyWindow(_window); glfwTerminate(): the window after the pair
DestroyedWindow == IF window = "null" THEN "null" ELSE "destroyed"
\* glfwDestroyWindow(_window) counted when it is made on a created window
\* (glfwDestroyWindow(NULL) does nothing)
CountTeardown == IF window = "null" THEN teardowns ELSE teardowns + 1

(* --------------------------------------------------------- geometry slots *)
\* VertexArrayObject::build(scene): one slot per object of the scene's list, in
\* list order; the slots of an earlier build are discarded
build(scene) == [i \in 1..Len(scenes[scene]) |-> [scene |-> scene, object |-> scenes[scene][i]]]

\* set_scene, line 56: the pointer stored
StoredScene(scene) == scene
\* set_scene that keeps an existing binding instead of rebuilding it
KeptVao(scene) == IF _vao = <<>> THEN build(scene) ELSE _vao
\* set_scene, line 57: the binding after _vao->build(scene)
RebuiltVao(scene) == build(scene)

\* calls of set_scene
SetSceneCalls(scene) ==
    << Call("glfwMakeContextCurrent", <<>>), Call("build", <<Len(scenes[scene])>>) >>

(* ------------------------------------------------------------ construction *)
\* calls of initialize up to the glfwInit check
InitHead == << Call("glfwSetErrorCallback", <<>>), Call("glfwInit", <<>>) >>
\* calls of initialize after a successful glfwInit
InitTail(w, h) ==
    << Call("make_unique_GLfloat", <<w * h>>), Call("make_unique_GLubyte", <<w * h * 3>>),
       Call("glfwWindowHint", <<3>>), Call("glfwWindowHint", <<2>>),
       Call("glfwWindowHint", <<>>), Call("glfwWindowHint", <<0>>),
       Call("glfwCreateWindow", <<w, h>>), Call("glfwMakeContextCurrent", <<>>),
       Call("gl3wInit", <<>>), Call("new_VertexArrayObject", <<>>),
       Call("new_Depth", <<>>), Call("new_Main", <<>>), Call("glGenRenderbuffers", <<1>>) >>

\* Renderer::initialize, then set_scene when the constructor takes a Scene.
\* glfwOk: glfwInit succeeds; winOk: glfwCreateWindow returns a window.
Constructor(w, h, withScene, scene, glfwOk, winOk, ub) ==
    /\ life = "none"
    /\ IF ub = "crash" THEN Crash
       ELSE
       /\ last' = [Event(IF withScene THEN "Renderer_scene" ELSE "Renderer")
                      EXCEPT !.path = IF ~glfwOk THEN "initfail"
                                      ELSE IF ~winOk THEN "nowindow" ELSE "none"]
       /\ IF ~glfwOk
          THEN /\ life' = "failed"
               /\ calls' = InitHead
               /\ UNCHANGED <<window, current, gl, dims, _scene, _vao, _depth_buffer,
                              _color_buffer>>
          ELSE /\ life' = "alive"
               /\ dims' = <<w, h>>
               /\ _depth_buffer' = make_unique(w * h)
               /\ _color_buffer' = make_unique(w * h * 3)
               /\ window' = IF winOk THEN "open" ELSE "null"
               /\ current' = IF winOk THEN "self" ELSE "none"
               /\ gl' = FreshGL
               /\ IF withScene
                  THEN /\ _scene' = StoredScene(scene)
                       /\ _vao' = RebuiltVao(scene)
                       /\ calls' = InitHead \o InitTail(w, h) \o SetSceneCalls(scene)
                  ELSE /\ UNCHANGED <<_scene, _vao>>
                       /\ calls' = InitHead \o InitTail(w, h)
       /\ bound' = IF glfwOk /\ withScene THEN Bound(scene) ELSE bound
       /\ UNCHANGED <<closeReq, teardowns, scenes, out>>

\* Renderer::Renderer(int width, int height)
Renderer ==
    \E w \in {Width}, h \in {Height}, glfwOk \in BOOLEAN, winOk \in BOOLEAN :
        \E ub \in Undefined(glfwOk /\ ~winOk) :
            Constructor(w, h, FALSE, "A", glfwOk, winOk, ub)

\* Renderer::Renderer(scene::Scene* scene, int width, int height)
RendererWithScene ==
    \E w \in {Width}, h \in {Height}, scene \in Scenes, glfwOk \in BOOLEAN, winOk \in BOOLEAN :
        \E ub \in Undefined(glfwOk /\ ~winOk) :
            Constructor(w, h, TRUE, scene, glfwOk, winOk, ub)

\* Renderer::~Renderer
Destructor ==
    /\ life = "alive"
    /\ teardowns < MaxTeardowns
    /\ \E ub \in Undefined(window = "destroyed") :
          IF ub = "crash" THEN Crash
          ELSE
          /\ life' = "destroyed"
          /\ teardowns' = CountTeardown
          /\ window' = DestroyedWindow
          /\ current' = "none"
          /\ calls' = << Call("glfwDestroyWindow", <<>>), Call("glfwTerminate", <<>>) >>
          /\ last' = Event("~Renderer")
          /\ out' = <<>>
          \* the members go with the object, the context with the library
          /\ gl' = FreshGL
          /\ _scene' = "unset"
          /\ _vao' = <<>>
          /\ bound' = Unbound
          /\ _depth_buffer' = <<>>
          /\ _color_buffer' = <<>>
          /\ UNCHANGED <<closeReq, dims, scenes>>

\* Renderer::set_scene
set_scene ==
    /\ life = "alive"
    /\ \E scene \in Scenes, ub \in Undefined(window # "open") :
          IF ub = "crash" THEN Crash
          ELSE
          /\ current' = glfwMakeContextCurrent
          /\ _scene' = StoredScene(scene)
          /\ _vao' = RebuiltVao(scene)
          /\ calls' = SetSceneCalls(scene)
          /\ bound' = Bound(scene)
          /\ last' = Event("set_scene")
          /\ out' = <<>>
          /\ UNCHANGED <<life, window, closeReq, teardowns, gl, dims, _depth_buffer,
                         _color_buffer, scenes>>

(* ------------------------------------------------------------ environment *)
\* the hidden window receives a close request (polled at lines 88 and 121)
CloseSignal ==
    /\ life = "alive"
    /\ window = "open"
    /\ ~closeReq
    /\ closeReq' = TRUE
    /\ last' = Event("close_signal")
    /\ calls' = <<>>
    /\ out' = <<>>
    /\ UNCHANGED <<life, window, teardowns, current, gl, dims, _scene, _vao, bound,
                   _depth_buffer, _color_buffer, scenes>>

\* the owner of a Scene adds an object to its list between calls
OwnerMutates ==
    /\ life \in {"none", "alive"}
    /\ \E s \in Scenes :
          /\ Len(scenes[s]) < MaxObjects
          /\ scenes' = [scenes EXCEPT ![s] = Append(@, Stock(s, Len(@) + 1))]
          /\ bound' = [bound EXCEPT !.touched = @ \/ s = bound.scene]
    /\ last' = Event("owner")
    /\ calls' = <<>>
    /\ out' = <<>>
    /\ UNCHANGED <<life, window, closeReq, teardowns, current, gl, dims, _scene, _vao,
                   _depth_buffer, _color_buffer>>

\* another Renderer is constructed on the same thread: its initialize makes the
\* context of its own window current (line 30)
OtherRenderer ==
    /\ life = "alive"
    /\ window = "open"
    /\ current = "self"
    /\ current' = "other"
    /\ last' = Event("other_Renderer")
    /\ calls' = <<>>
    /\ out' = <<>>
    /\ UNCHANGED <<life, window, closeReq, teardowns, gl, dims, _scene, _vao, bound,
                   _depth_buffer, _color_buffer, scenes>>

(* ------------------------------------------------------------ render_objects *)
\* the smoothness float with the two branches exchanged
smoothness_swapped(o) == IF _smoothness(o) THEN 0 ELSE 1
\* line 79: float smoothness = object->_smoothness ? 1.0 : 0.0
smoothness(o) == IF _smoothness(o) THEN 1 ELSE 0

\* line 81: the vertex count passed to glDrawArrays
VertexCount(o) == 3 * _num_faces(o)

\* lines 73-81: the calls of one iteration of the loop, for object_index and the
\* object at that index
IterationCalls(object_index, o, cam) ==
    << Call("bind_object", <<object_index>>),
       Call("uniform_matrix", <<0, _model_matrix(o)>>),
       Call("uniform_matrix", <<1, _view_matrix(cam)>>),
       Call("uniform_matrix", <<2, _projection_matrix(cam)>>),
       Call("uniform_float", <<3, smoothness(o)>>),
       Call("glDrawArrays", <<0, VertexCount(o)>>) >>

\* number of calls in one iteration
PerObject == Len(IterationCalls(0, "o1", 1))

\* lines 72-82: the calls of the whole loop over objects, index 0 first
LoopCalls(objects, cam) ==
    [k \in 1..(PerObject * Len(objects)) |->
        IterationCalls((k - 1) \div PerObject, objects[((k - 1) \div PerObject) + 1], cam)
            [((k - 1) % PerObject) + 1]]

\* lines 62-65: the calls of render_objects before the loop
ObjectsHead ==
    << Call("glfwMakeContextCurrent", <<>>), Call("glViewport", <<0, 0, dims[1], dims[2]>>),
       Call("glClear", <<>>), Call("glClearColor", <<0, 0, 0, 1>>) >>

\* line 74: the slot _vao->bind_object(object_index) binds; an index that was
\* never built reads past the slot array and binds whatever name is found there
bind_object(vao, object_index, garbage) ==
    IF object_index < Len(vao) THEN vao[object_index + 1] ELSE garbage

\* the draws of one render_objects pass: per object the slot bound and the uniforms
Draws(objects, vao, garbage) ==
    [i \in 1..Len(objects) |->
        [slot |-> bind_object(vao, i - 1, garbage), object |-> objects[i],
         model |-> _model_matrix(objects[i]), smooth |-> smoothness(objects[i]),
         count |-> VertexCount(objects[i])]]

(* --------------------------------------------- the pipeline (glDrawArrays) *)
\* whether the geometry of a slot, seen by camera cam, covers pixel (x, y);
\* y = 0 is the bottom scanline
Covers(d, cam, x, y) ==
    /\ d.slot # NoSlot
    /\ d.count > 0
    /\ (d.slot.object = "o1" \/ y = 0)
    /\ (cam = 1 \/ x > 0)
    /\ (d.slot.object = "o2" \/ x > 0 \/ y > 0)

\* depth of a fragment of draw d (hundredths; nearer is smaller)
FragDepth(d, cam) == 30 * d.model + 5 * (cam - 1)

\* colour channel c of a fragment of draw d
Shade(d, cam, c) == 40 * _model_matrix(d.slot.object) + 3 * cam + c

\* pixel (x, y) after clearing and the first k draws under context state g:
\* src is the draw whose fragment is kept (0: the cleared value), dep the depth
RECURSIVE Pixel(_, _, _, _, _, _)
Pixel(draws, k, g, cam, x, y) ==
    IF k = 0 THEN [src |-> 0, dep |-> g.clearDepth]
    ELSE LET p == Pixel(draws, k - 1, g, cam, x, y)
             d == draws[k]
             tested == g.depthTest /\ g.depthAtt
         IN  IF g.program /\ Covers(d, cam, x, y) /\ (~tested \/ FragDepth(d, cam) < p.dep)
             THEN [src |-> k, dep |-> IF tested THEN FragDepth(d, cam) ELSE p.dep]
             ELSE p

\* line 140: what glReadPixels(GL_RGB, GL_UNSIGNED_BYTE) stores, bottom row first
ColorReadback(draws, g, cleared, cam) ==
    [i \in 1..(dims[1] * dims[2] * 3) |->
        LET x == ((i - 1) \div 3) % dims[1]
            y == ((i - 1) \div 3) \div dims[1]
            c == (i - 1) % 3
            p == Pixel(draws, Len(draws), g, cam, x, y)
        IN  IF p.src = 0 THEN cleared[c + 1] ELSE Shade(draws[p.src], cam, c)]

\* line 105: what glReadPixels(GL_DEPTH_COMPONENT, GL_FLOAT) stores, bottom row first
DepthReadback(draws, g, cam) ==
    [i \in 1..(dims[1] * dims[2]) |->
        Pixel(draws, Len(draws), g, cam, (i - 1) % dims[1], (i - 1) \div dims[1]).dep]

(* ------------------------------------------------------------- the export *)
\* element i of a buffer of the source (0-based); a read past the end is garbage
At(buffer, i) == IF i \in 0..(Len(buffer) - 1) THEN buffer[i + 1] ELSE -1

\* line 109: index read for depth_map(h, w)
DepthSource(h, w) == (dims[2] - h - 1) * dims[1] + w

\* the colour index without the vertical flip
ColorSource_unflipped(h, w, c) == h * dims[1] * 3 + w * 3 + c
\* lines 144-146: index read for rgb_map(h, w, c)
ColorSource(h, w, c) == (dims[2] - h - 1) * dims[1] * 3 + w * 3 + c

\* lines 107-111: the caller's depth array (shape [height, width], row-major)
FlipDepth(buffer) ==
    [i \in 1..(dims[1] * dims[2]) |->
        At(buffer, DepthSource((i - 1) \div dims[1], (i - 1) % dims[1]))]

\* lines 142-148: the caller's colour array (shape [height, width, 3], row-major)
FlipColor(buffer) ==
    [i \in 1..(dims[1] * dims[2] * 3) |->
        At(buffer, ColorSource(((i - 1) \div 3) \div dims[1], ((i - 1) \div 3) % dims[1],
                               (i - 1) % 3))]

\* the caller's array as allocated and initialised before the call
CallerArray(kind, fill) ==
    [i \in 1..(dims[1] * dims[2] * (IF kind = "render" THEN 3 ELSE 1)) |-> fill]

(* ------------------------------------------------------------ render family *)
\* lines 94-101 and 127-136: the calls before render_objects
Prologue(kind) ==
    << Call("use", <<>>), Call("glEnable", <<1>>), Call("glEnable", <<2>>),
       Call("glEnable", <<3>>), Call("glBlendFunc", <<>>) >>
    \o (IF kind = "render"
        THEN << Call("glPixelStorei", <<1>>), Call("glViewport", <<0, 0, dims[1], dims[2]>>) >>
        ELSE <<>>)
    \o << Call("glBindRenderbuffer", <<1>>), Call("glFramebufferRenderbuffer", <<>>) >>

\* lines 113-115 and 150-152: the calls after the export
Epilogue ==
    << Call("glUseProgram", <<0>>), Call("glBindVertexArray", <<0>>),
       Call("glBindRenderbuffer", <<0>>) >>

\* the context state after the prologue, issued on the context current at entry
AfterPrologue(kind, g, entry) ==
    IF entry # "self" THEN g
    ELSE IF kind = "render"
         THEN [g EXCEPT !.program = TRUE, !.blend = TRUE, !.cull = TRUE, !.depthTest = TRUE,
                        !.viewport = <<0, 0, dims[1], dims[2]>>, !.colorAtt = TRUE]
         ELSE [g EXCEPT !.program = TRUE, !.blend = TRUE, !.cull = TRUE, !.depthTest = TRUE,
                        !.depthAtt = TRUE]

\* lines 63-65: the context state after the head of render_objects
AfterObjectsHead(g, cur) ==
    IF cur # "self" THEN g
    ELSE [g EXCEPT !.viewport = <<0, 0, dims[1], dims[2]>>, !.clearColor = <<0, 0, 0, 1>>]

\* line 64: the colour and depth glClear writes (those in effect when it runs)
ClearedWith(g, cur) ==
    IF cur # "self" THEN <<>>
    ELSE <<g.clearColor[1], g.clearColor[2], g.clearColor[3], g.clearColor[4], g.clearDepth>>

\* lines 113 and 150: the context state after the epilogue
AfterEpilogue(g, cur) == IF cur # "self" THEN g ELSE [g EXCEPT !.program = FALSE]

\* line 71: the list _scene->_objects; an unset pointer may point anywhere
SceneObjects(sc) ==
    IF sc = "unset" THEN {<<>>} \cup {scenes[s] : s \in Scenes} ELSE {scenes[sc]}

\* what an index past the built slots may bind
GarbageSlots == {NoSlot} \cup {[scene |-> s, object |-> o] : s \in Scenes, o \in Objects}

\* render_depth_map / render on camera cam and a caller array filled with fill;
\* setFirst: the overload that takes a Scene and calls set_scene first
RenderCall(kind, setFirst, scene, cam, fill) ==
    /\ life = "alive"
    /\ LET sc1 == IF setFirst THEN StoredScene(scene) ELSE _scene
           vao1 == IF setFirst THEN RebuiltVao(scene) ELSE _vao
           entry == IF setFirst THEN glfwMakeContextCurrent ELSE current
           pre == IF setFirst THEN SetSceneCalls(scene) ELSE <<>>
       IN  \E close \in glfwWindowShouldClose, objects \in SceneObjects(sc1) :
           \E garbage \in (IF ~close /\ Len(objects) > Len(vao1) THEN GarbageSlots ELSE {NoSlot}) :
           \E ub \in Undefined(window # "open"
                               \/ (~close /\ (sc1 = "unset" \/ Len(objects) > Len(vao1)))) :
              LET cur == glfwMakeContextCurrent
                  g1 == AfterPrologue(kind, gl, entry)
                  g2 == AfterObjectsHead(g1, cur)
                  cleared == ClearedWith(g1, cur)
                  draws == Draws(objects, vao1, garbage)
                  me == [Event(kind) EXCEPT !.cam = cam, !.fill = fill, !.entry = entry]
              IN
              IF ub = "crash" THEN Crash
              ELSE
              /\ _scene' = sc1
              /\ _vao' = vao1
              /\ bound' = IF setFirst THEN Bound(scene) ELSE bound
              /\ UNCHANGED <<life, closeReq, dims, scenes>>
              /\ IF close
                 THEN /\ teardowns < MaxTeardowns
                      /\ window' = DestroyedWindow
                      /\ teardowns' = CountTeardown
                      /\ current' = "none"
                      /\ last' = [me EXCEPT !.path = "closed"]
                      /\ calls' = pre \o << Call("glfwWindowShouldClose", <<>>),
                                            Call("glfwDestroyWindow", <<>>),
                                            Call("glfwTerminate", <<>>) >>
                      /\ out' = CallerArray(kind, fill)
                      /\ UNCHANGED <<gl, _depth_buffer, _color_buffer>>
                 ELSE /\ current' = cur
                      /\ gl' = AfterEpilogue(g2, cur)
                      /\ last' = [me EXCEPT !.path = "rendered", !.cleared = cleared,
                                            !.objs = objects,
                                            !.slots = [i \in 1..Len(draws) |-> draws[i].slot]]
                      /\ calls' = pre \o << Call("glfwWindowShouldClose", <<>>) >>
                                      \o Prologue(kind) \o ObjectsHead \o LoopCalls(objects, cam)
                                      \o << Call("glReadPixels", <<0, 0, dims[1], dims[2]>>) >>
                                      \o Epilogue
                      /\ IF kind = "render"
                         THEN /\ _color_buffer' = IF cur = "self" /\ g2.colorAtt
                                                  THEN ColorReadback(draws, g2, cleared, cam)
                                                  ELSE _color_buffer
                              /\ out' = FlipColor(_color_buffer')
                              /\ UNCHANGED _depth_buffer
                         ELSE /\ _depth_buffer' = IF cur = "self" /\ g2.depthAtt
                                                  THEN DepthReadback(draws, g2, cam)
                                                  ELSE _depth_buffer
                              /\ out' = FlipDepth(_depth_buffer')
                              /\ UNCHANGED _color_buffer
                      /\ UNCHANGED <<window, teardowns>>

\* Renderer::render_depth_map(camera, np_depth_map)
render_depth_map ==
    \E cam \in Cameras, fill \in Fills : RenderCall("render_depth_map", FALSE, "A", cam, fill)

\* Renderer::render(camera, np_rgb_map)
render ==
    \E cam \in Cameras, fill \in Fills : RenderCall("render", FALSE, "A", cam, fill)

\* Renderer::render_depth_map(scene, camera, np_depth_map)
render_depth_map_scene ==
    \E scene \in Scenes, cam \in Cameras, fill \in Fills :
        RenderCall("render_depth_map", TRUE, scene, cam, fill)

\* Renderer::render(scene, camera, np_rgb_map)
render_scene ==
    \E scene \in Scenes, cam \in Cameras, fill \in Fills :
        RenderCall("render", TRUE, scene, cam, fill)

\* one operation of the Renderer or one event of its environment
Next ==
    \/ Renderer
    \/ RendererWithScene
    \/ Destructor
    \/ set_scene
    \/ render_depth_map
    \/ render
    \/ render_depth_map_scene
    \/ render_scene
    \/ CloseSignal
    \/ OwnerMutates
    \/ OtherRenderer

Spec == Init /\ [][Next]_vars

(* ================================================================ claims *)
\* the last operation was a render-family call that went through the rendering path
Rendered == last.path = "rendered"
\* ... on a surface that was open, created and not torn down
RenderedOpen == Rendered /\ window = "open"
\* the calls of the last operation that belong to the loop over objects
LoopApis == {"bind_object", "uniform_matrix", "uniform_float", "glDrawArrays"}
IsLoopCall(c) == c.api \in LoopApis
IsDraw(c) == c.api = "glDrawArrays"
\* calls into the graphics API (everything but the windowing library and allocation)
GraphicsApis ==
    LoopApis \cup {"use", "glEnable", "glBlendFunc", "glPixelStorei", "glViewport",
                   "glBindRenderbuffer", "glFramebufferRenderbuffer", "glClear",
                   "glClearColor", "glReadPixels", "glUseProgram", "glBindVertexArray",
                   "build"}
\* positions in the last operation's calls
Positions == 1..Len(calls)

\* C1: a render or render_depth_map call on an open surface, after set_scene calls
\* and with no change of the list by the owner since the last of them, draws once
\* per object of the Scene passed to the most recent set_scene, the i-th draw with
\* the slot that set_scene built from the i-th object; no slot of another Scene.
C1_DrawsLatestScene ==
    (RenderedOpen /\ bound.scene # "unset" /\ ~bound.touched) =>
        /\ last.objs = scenes[bound.scene]
        /\ Len(SelectSeq(calls, IsDraw)) = Len(scenes[bound.scene])
        /\ Len(last.slots) = Len(scenes[bound.scene])
        /\ \A i \in 1..Len(last.slots) :
              last.slots[i] = [scene |-> bound.scene, object |-> scenes[bound.scene][i]]

\* C1 witness: a colour render of Scene B's two objects while the depth buffer still
\* holds what an earlier render_depth_map of Scene A (one object) read back
C1_Witness ==
    /\ RenderedOpen
    /\ last.op = "render"
    /\ bound = Bound("B")
    /\ Len(last.slots) = 2
    /\ scenes["A"] = <<"o1">>
    /\ _depth_buffer = [i \in 1..(Width * Height) |-> IF i = 1 THEN 100 ELSE 30]

\* C7: after every completed render / render_depth_map, output element (h, w[, c])
\* equals the internal buffer element of source row height-1-h, column w (same
\* channel), and every source index read lies inside the preallocated buffer.
C7_RowFlip ==
    Rendered =>
        IF last.op = "render"
        THEN /\ Len(_color_buffer) = dims[1] * dims[2] * 3
             /\ Len(out) = dims[1] * dims[2] * 3
             /\ \A h \in 0..(dims[2] - 1), w \in 0..(dims[1] - 1), c \in 0..2 :
                   /\ ColorSource(h, w, c) \in 0..(dims[1] * dims[2] * 3 - 1)
                   /\ out[(h * dims[1] + w) * 3 + c + 1]
                        = _color_buffer[((dims[2] - 1 - h) * dims[1] + w) * 3 + c + 1]
        ELSE /\ Len(_depth_buffer) = dims[1] * dims[2]
             /\ Len(out) = dims[1] * dims[2]
             /\ \A h \in 0..(dims[2] - 1), w \in 0..(dims[1] - 1) :
                   /\ DepthSource(h, w) \in 0..(dims[1] * dims[2] - 1)
                   /\ out[h * dims[1] + w + 1]
                        = _depth_buffer[(dims[2] - 1 - h) * dims[1] + w + 1]

\* C7 witness: a completed colour render whose readback differs between the bottom
\* and the top scanline, so that the flip is visible in the output
C7_Witness ==
    /\ RenderedOpen
    /\ last.op = "render"
    /\ \E w \in 0..(dims[1] - 1) :
          _color_buffer[w * 3 + 1] # _color_buffer[((dims[2] - 1) * dims[1] + w) * 3 + 1]
    /\ out # _color_buffer

\* C8: render_objects on a Scene with N objects issues N draws in list order; the
\* i-th is preceded, after the previous draw, by binding slot i and uploading the
\* model matrix of object i, the camera's view and projection matrices and a
\* smoothness float of 1.0 for a true flag and 0.0 otherwise, and it covers
\* 3 * num_faces(object i) vertices.
C8_DrawLoop ==
    Rendered =>
        LET loop == SelectSeq(calls, IsLoopCall)
            N == Len(last.objs)
        IN  /\ bound.scene # "unset" => last.objs = scenes[bound.scene]
            /\ Len(loop) = 6 * N
            /\ Len(SelectSeq(calls, IsDraw)) = N
            /\ \A i \in 0..(N - 1) :
                  LET o == last.objs[i + 1] IN
                  /\ loop[6 * i + 1] = Call("bind_object", <<i>>)
                  /\ {loop[6 * i + k] : k \in 2..5}
                       = { Call("uniform_matrix", <<0, _model_matrix(o)>>),
                           Call("uniform_matrix", <<1, _view_matrix(last.cam)>>),
                           Call("uniform_matrix", <<2, _projection_matrix(last.cam)>>),
                           Call("uniform_float", <<3, IF _smoothness(o) THEN 1 ELSE 0>>) }
                  /\ loop[6 * i + 6] = Call("glDrawArrays", <<0, 3 * _num_faces(o)>>)

\* C8 witness: a render of two objects, one smooth and one not
C8_Witness ==
    /\ RenderedOpen
    /\ Len(last.objs) = 2
    /\ _smoothness(last.objs[1]) # _smoothness(last.objs[2])
    /\ ~bound.touched

\* the last operation was a call of render or render_depth_map (either overload)
RenderCalled == last.op \in {"render", "render_depth_map"}

\* C2: once the surface has received a close signal, every render and
\* render_depth_map call (the first and every later one) returns without error,
\* issues no draw and no readback, and leaves every element of the caller's array
\* as the caller initialised it.
C2_NoOpAfterClose ==
    (closeReq /\ RenderCalled) =>
        /\ last.path = "closed"
        /\ \A i \in Positions : calls[i].api \notin {"glDrawArrays", "glReadPixels"}
        /\ out = CallerArray(last.op, last.fill)

\* C3: over a Renderer's lifetime the teardown of surface and context is performed
\* exactly once: never twice on the same window, never on a torn-down window, and
\* once by the time the Renderer is destroyed.
C3_TeardownOnce ==
    /\ teardowns <= 1
    /\ (life = "destroyed" /\ window = "destroyed") => teardowns = 1

\* C4: in set_scene and in every render-family call (here: on an open surface),
\* making the context current precedes every other graphics-API call of the
\* operation.
C4_ContextFirst ==
    (/\ last.op \in {"set_scene", "render", "render_depth_map"}
     /\ window = "open" /\ bound.scene # "unset" /\ ~bound.touched) =>
        \A i \in Positions :
            calls[i].api \in GraphicsApis =>
                \E j \in 1..(i - 1) : calls[j].api = "glfwMakeContextCurrent"

\* C5: at every render or render_depth_map call (here: on an open surface, after
\* at least one set_scene) every object index render_objects iterates has a slot
\* built from that same object by the most recent set_scene, whatever set_scene
\* calls and owner changes preceded.
C5_BindingMatchesScene ==
    (RenderedOpen /\ bound.scene # "unset") =>
        /\ bound.scene = _scene
        /\ last.objs = scenes[_scene]
        /\ Len(_vao) = Len(last.objs)
        /\ \A i \in 1..Len(last.objs) :
              /\ last.slots[i] = [scene |-> _scene, object |-> last.objs[i]]
              /\ _vao[i] = last.slots[i]

\* C6: in every render_objects call (here: on an open surface, with a Scene set and
\* unchanged since), the first after construction included, the
\* viewport is set and the colour attachment is cleared to (0,0,0,1) and the depth
\* attachment to full depth before any draw; so a Scene with no objects yields
\* (0,0,0) in every pixel of render and the cleared depth in every pixel of
\* render_depth_map.
C6_ClearBeforeDraw ==
    (RenderedOpen /\ bound.scene # "unset" /\ ~bound.touched) =>
        /\ last.cleared = <<0, 0, 0, 1, 100>>
        /\ \A i \in Positions :
              IsDraw(calls[i]) =>
                 /\ \E j \in 1..(i - 1) : calls[j].api = "glClear"
                 /\ \E j \in 1..(i - 1) : calls[j] = Call("glViewport", <<0, 0, dims[1], dims[2]>>)
        /\ last.objs = <<>> =>
              \A i \in 1..Len(out) : out[i] = IF last.op = "render" THEN 0 ELSE 100

\* C9: when the windowing subsystem cannot start (glfwInit fails or no window can
\* be created) construction raises an error and leaves no partly constructed
\* Renderer: no buffer, window, pipeline or render target has been created, and
\* no Renderer lives with a missing window.
C9_FailedInitLeavesNothing ==
    /\ (last.op \in {"Renderer", "Renderer_scene"} /\ last.path \in {"initfail", "nowindow"}) =>
          /\ life = "failed"
          /\ _depth_buffer = <<>>
          /\ _color_buffer = <<>>
          /\ \A i \in Positions :
                calls[i].api \notin {"make_unique_GLfloat", "make_unique_GLubyte",
                                     "new_VertexArrayObject", "new_Depth", "new_Main",
                                     "glGenRenderbuffers", "build"}
    /\ life = "alive" => window # "null"

\* C10: two consecutive render calls on an open surface with the same Scene, set
\* and not changed by its owner, and the same Camera leave the same values in the
\* output array, whatever Renderer operations preceded the first of them.
C10_RepeatedRenderSame ==
    [][ ( /\ last.op = "render" /\ last.path = "rendered" /\ window = "open"
          /\ bound.scene # "unset" /\ ~bound.touched
          /\ last'.op = "render" /\ last'.path = "rendered" /\ window' = "open"
          /\ last'.cam = last.cam
          /\ bound' = bound /\ scenes' = scenes )
        => out' = out ]_vars

====
